---------------------------- MODULE Spec2Model ----------------------------
(***************************************************************************)
(* Forward automatic differentiation: the eager dual number AD<N> of       *)
(* diff.h, the expression templates of expr.h, and the three programs      *)
(* that use them.                                                          *)
(*                                                                         *)
(* A double is modelled as an exact rational or one of the IEEE-754        *)
(* special values (+Inf, -Inf, NaN).  Rounding, overflow of the exponent   *)
(* range and the sign of zero are not modelled: a result that is finite    *)
(* is the exact quotient, and there is one zero, which divides like +0.    *)
(***************************************************************************)
EXTENDS Integers, Sequences, FiniteSets

-----------------------------------------------------------------------------
(* Bounds of the model.                                                    *)

\* leaf values are the integers MinVal .. MaxVal
MaxVal == 2
\* number of diff() calls before the operation under study
MaxSeeds == 2

\* the dimension of the derivative array, typedef diff::AD<3> ScalarT
N == 3

MinVal == 0 - 1
Idx == 0 .. (N - 1)

-----------------------------------------------------------------------------
(* double                                                                  *)

Abs(i) == IF i < 0 THEN 0 - i ELSE i

Sgn(i) == IF i < 0 THEN 0 - 1 ELSE IF i = 0 THEN 0 ELSE 1

RECURSIVE Gcd(_, _)
Gcd(p, q) == IF q = 0 THEN p ELSE Gcd(q, p % q)

\* the finite double p/q, q # 0, in lowest terms with a positive denominator
Rat(p, q) ==
  LET g == Gcd(Abs(p), Abs(q))
  IN  [k |-> "fin", n |-> (Sgn(q) * p) \div g, d |-> Abs(q) \div g]

Num(i) == [k |-> "fin", n |-> i, d |-> 1]

NaN == [k |-> "nan", n |-> 0, d |-> 1]

\* +Inf (sg = 1) or -Inf (sg = -1)
Inf(sg) == [k |-> "inf", n |-> sg, d |-> 1]

\* a finite nonzero value that is no rational (the logarithm of a positive
\* number other than 1), of sign sg; its magnitude is not tracked: times zero
\* it is zero, and a sum or product with a finite value is again such a value
Irr(sg) == [k |-> "irr", n |-> sg, d |-> 1]

Zero == Num(0)
One == Num(1)

IsZero(u) == u.k = "fin" /\ u.n = 0

SignOf(u) == Sgn(u.n)

\* unary minus of a double
Neg(u) == IF u.k = "nan" THEN NaN ELSE [u EXCEPT !.n = 0 - u.n]

\* u + v in double arithmetic
Add(u, v) ==
  CASE u.k = "nan" \/ v.k = "nan" -> NaN
    [] u.k = "inf" /\ v.k = "inf" -> IF u.n = v.n THEN u ELSE NaN
    [] u.k = "inf" -> u
    [] v.k = "inf" -> v
    [] u.k = "irr" -> u
    [] v.k = "irr" -> v
    [] OTHER -> Rat(u.n * v.d + v.n * u.d, u.d * v.d)

\* u - v in double arithmetic
Sub(u, v) == Add(u, Neg(v))

\* u * v in double arithmetic
Mul(u, v) ==
  CASE u.k = "nan" \/ v.k = "nan" -> NaN
    [] IsZero(u) -> IF v.k = "inf" THEN NaN ELSE Zero
    [] IsZero(v) -> IF u.k = "inf" THEN NaN ELSE Zero
    [] u.k = "inf" \/ v.k = "inf" -> Inf(SignOf(u) * SignOf(v))
    [] u.k = "irr" \/ v.k = "irr" -> Irr(SignOf(u) * SignOf(v))
    [] OTHER -> Rat(u.n * v.n, u.d * v.d)

\* u / v in double arithmetic
Div(u, v) ==
  CASE u.k = "nan" \/ v.k = "nan" -> NaN
    [] u.k = "inf" /\ v.k = "inf" -> NaN
    [] u.k = "inf" -> Inf(IF IsZero(v) THEN u.n ELSE u.n * SignOf(v))
    [] v.k = "inf" -> Zero
    [] IsZero(v) -> IF IsZero(u) THEN NaN ELSE Inf(SignOf(u))
    [] IsZero(u) -> Zero
    [] u.k = "irr" \/ v.k = "irr" -> Irr(SignOf(u) * SignOf(v))
    [] OTHER -> Rat(u.n * v.d, u.d * v.n)

-----------------------------------------------------------------------------
(* diff.h: class AD<N>                                                     *)

\* AD::zero
zero(self) == [self EXCEPT !.dx = [i \in Idx |-> Zero]]

\* AD::AD(double x)
ADOf(x) == [x |-> x, dx |-> [i \in Idx |-> Zero]]

\* AD::AD()
ADDefault == ADOf(Zero)

\* diff without the call of zero(): the old gradient stays
diff_NoReset(self, i) == [self EXCEPT !.dx[i] = One]

\* AD::diff(i) for an index inside the array
diff(self, i) == [zero(self) EXCEPT !.dx[i] = One]


\* AD::dx(i) const, for an index inside the array
dx(self, i) == self.dx[i]

(* BINARY OPERATIONS: a default-constructed tmp, the derivative loop over  *)
(* i < N, then the value.                                                  *)

\* operator+(double L, AD<N> const& R)
PlusDA(L, R) == [x |-> Add(L, R.x), dx |-> [i \in Idx |-> R.dx[i]]]

\* operator+(AD<N> const& L, double R)
PlusAD(L, R) == [x |-> Add(L.x, R), dx |-> [i \in Idx |-> L.dx[i]]]

\* operator+(AD<N> const& L, AD<N> const& R)
PlusAA(L, R) == [x |-> Add(L.x, R.x), dx |-> [i \in Idx |-> Add(L.dx[i], R.dx[i])]]

\* operator-(double L, AD<N> const& R)
MinusDA(L, R) == [x |-> Sub(L, R.x), dx |-> [i \in Idx |-> Neg(R.dx[i])]]

\* operator-(AD<N> const& L, double R)
MinusAD(L, R) == [x |-> Sub(L.x, R), dx |-> [i \in Idx |-> L.dx[i]]]

\* operator-(AD<N> const& L, AD<N> const& R)
MinusAA(L, R) == [x |-> Sub(L.x, R.x), dx |-> [i \in Idx |-> Sub(L.dx[i], R.dx[i])]]

\* operator*(double L, AD<N> const& R)
TimesDA(L, R) == [x |-> Mul(L, R.x), dx |-> [i \in Idx |-> Mul(L, R.dx[i])]]

\* operator*(AD<N> const& L, double R)
TimesAD(L, R) == [x |-> Mul(L.x, R), dx |-> [i \in Idx |-> Mul(L.dx[i], R)]]

\* the product rule without its second term
TimesAA_OneTerm(L, R) ==
  [x |-> Mul(L.x, R.x), dx |-> [i \in Idx |-> Mul(L.dx[i], R.x)]]

\* operator*(AD<N> const& L, AD<N> const& R)
TimesAA(L, R) ==
  [x |-> Mul(L.x, R.x),
   dx |-> [i \in Idx |-> Add(Mul(L.dx[i], R.x), Mul(L.x, R.dx[i]))]]

\* operator/(double L, AD<N> const& R)
OverDA(L, R) ==
  [x |-> Div(L, R.x),
   dx |-> [i \in Idx |-> Div(Mul(Neg(L), R.dx[i]), Mul(R.x, R.x))]]

\* operator/(AD<N> const& L, double R)
OverAD(L, R) == [x |-> Div(L.x, R), dx |-> [i \in Idx |-> Div(L.dx[i], R)]]

\* the quotient rule with the sign of its second term slipped
OverAA_SignSlip(L, R) ==
  [x |-> Div(L.x, R.x),
   dx |-> [i \in Idx |->
             Div(Add(Mul(L.dx[i], R.x), Mul(L.x, R.dx[i])), Mul(R.x, R.x))]]

\* operator/(AD<N> const& L, AD<N> const& R)
OverAA(L, R) ==
  [x |-> Div(L.x, R.x),
   dx |-> [i \in Idx |->
             Div(Sub(Mul(L.dx[i], R.x), Mul(L.x, R.dx[i])), Mul(R.x, R.x))]]

Ops == {"+", "-", "*", "/"}

\* overload resolution of  L f R  for two AD operands
BinaryAA(f, L, R) ==
  CASE f = "+" -> PlusAA(L, R)
    [] f = "-" -> MinusAA(L, R)
    [] f = "*" -> TimesAA(L, R)
    [] f = "/" -> OverAA(L, R)

\* overload resolution of  L f R  for a double and an AD operand
BinaryDA(f, L, R) ==
  CASE f = "+" -> PlusDA(L, R)
    [] f = "-" -> MinusDA(L, R)
    [] f = "*" -> TimesDA(L, R)
    [] f = "/" -> OverDA(L, R)

\* overload resolution of  L f R  for an AD and a double operand
BinaryAD(f, L, R) ==
  CASE f = "+" -> PlusAD(L, R)
    [] f = "-" -> MinusAD(L, R)
    [] f = "*" -> TimesAD(L, R)
    [] f = "/" -> OverAD(L, R)

(* COMPOUND ASSIGNMENT.  `other` is read through a reference: when it is   *)
(* the receiver itself (alias), the loop reads the value already updated.  *)

\* AD::operator+=(double other)
PlusEqD(self, other) == [self EXCEPT !.x = Add(self.x, other)]

\* AD::operator+=(AD<N> const& other)
PlusEqA(self, other) ==
  [x |-> Add(self.x, other.x), dx |-> [i \in Idx |-> Add(self.dx[i], other.dx[i])]]

\* AD::operator-=(double other)
MinusEqD(self, other) == [self EXCEPT !.x = Sub(self.x, other)]

\* AD::operator-=(AD<N> const& other)
MinusEqA(self, other) ==
  [x |-> Sub(self.x, other.x), dx |-> [i \in Idx |-> Sub(self.dx[i], other.dx[i])]]

\* AD::operator*=(double other)
TimesEqD(self, other) ==
  [x |-> Mul(self.x, other), dx |-> [i \in Idx |-> Mul(self.dx[i], other)]]

\* AD::operator*=(AD<N> const& other): x_ is multiplied first and the loop
\* reads the new x_
TimesEqA(self, other, alias) ==
  LET x1 == Mul(self.x, other.x)
      ox == IF alias THEN x1 ELSE other.x
  IN  [x |-> x1,
       dx |-> [i \in Idx |-> Add(Mul(self.dx[i], ox), Mul(x1, other.dx[i]))]]

\* AD::operator/=(double other)
OverEqD(self, other) ==
  [x |-> Div(self.x, other), dx |-> [i \in Idx |-> Div(self.dx[i], other)]]

\* AD::operator/=(AD<N> const& other): x_ is divided first and the loop reads
\* the new x_
OverEqA(self, other, alias) ==
  LET x1 == Div(self.x, other.x)
      ox == IF alias THEN x1 ELSE other.x
  IN  [x |-> x1,
       dx |-> [i \in Idx |->
                 Div(Sub(Mul(self.dx[i], ox), Mul(x1, other.dx[i])), Mul(ox, ox))]]

\* the receiver after  self f= other  with a double operand
CompoundD(f, self, other) ==
  CASE f = "+" -> PlusEqD(self, other)
    [] f = "-" -> MinusEqD(self, other)
    [] f = "*" -> TimesEqD(self, other)
    [] f = "/" -> OverEqD(self, other)

\* the receiver after  self f= other  with an AD operand
CompoundA(f, self, other, alias) ==
  CASE f = "+" -> PlusEqA(self, other)
    [] f = "-" -> MinusEqA(self, other)
    [] f = "*" -> TimesEqA(self, other, alias)
    [] f = "/" -> OverEqA(self, other, alias)

\* what the caller receives: +=, -= and the double forms end in
\* `return *this`; operator*=(AD) and operator/=(AD) flow off the end of a
\* function returning AD<N>&, so the reference returned is indeterminate
Returned(f, form) ==
  IF form = "A" /\ f \in {"*", "/"} THEN {"self", "indeterminate"} ELSE {"self"}

-----------------------------------------------------------------------------
(* <cmath>, as PowExpr uses it.  The operands are finite; the exponent of  *)
(* std::pow is an integer in every expression of the model.                *)

RECURSIVE IntPow(_, _)
IntPow(u, e) == IF e = 0 THEN One ELSE Mul(u, IntPow(u, e - 1))

\* std::log: NaN below zero (a domain error), -Inf at zero (a pole error)
Log(u) ==
  CASE u.k = "nan" -> NaN
    [] u.k = "inf" -> IF u.n > 0 THEN Inf(1) ELSE NaN
    [] u.k = "irr" -> IF u.n > 0 THEN Irr(1) ELSE NaN
    [] u.n < 0 -> NaN
    [] u.n = 0 -> Inf(0 - 1)
    [] u.n = u.d -> Zero
    [] OTHER -> Irr(IF u.n > u.d THEN 1 ELSE 0 - 1)

\* std::pow(u, v)
Pow(u, v) ==
  CASE IsZero(v) -> One
    [] u.k # "fin" \/ v.k # "fin" -> NaN
    [] v.d # 1 -> IF u.n < 0 THEN NaN ELSE Irr(1)
    [] v.n > 0 -> IntPow(u, v.n)
    [] OTHER -> Div(One, IntPow(u, 0 - v.n))

-----------------------------------------------------------------------------
(* expr.h: expression templates.  An expression is the sequence of its     *)
(* nodes, operands before the node that references them, the root last;    *)
(* l and r are the positions of the operands l_ and r_ (0: none).  A       *)
(* ValExpr node is named by the variable it is; every other node is a      *)
(* temporary of the full expression.                                       *)

\* the ValExpr variables an expression can mention, and the one a
\* constructor creates
Leaves == {"t", "y"}
Fresh == "f"
Vars == Leaves \cup {Fresh}

\* enum { degree = T::degree }: the dimension of the AD the ValExpr stores
degree == N

ValNode(nm) == [k |-> "val", name |-> nm, c |-> Zero, l |-> 0, r |-> 0]

\* ConstExpr::ConstExpr(double const& v)
ConstNode(v) == [k |-> "const", name |-> "", c |-> v, l |-> 0, r |-> 0]

Shift(e, by) ==
  [j \in 1 .. Len(e) |->
     IF e[j].l = 0 THEN e[j] ELSE [e[j] EXCEPT !.l = @ + by, !.r = @ + by]]

\* operator+, operator-, operator*, operator/ and pow on two expressions:
\* a node of kind k holding references to a.self() and b.self()
Node(k, ea, eb) ==
  ea \o Shift(eb, Len(ea)) \o
    << [k |-> k, name |-> "", c |-> Zero, l |-> Len(ea), r |-> Len(ea) + Len(eb)] >>

\* val() of node j of e, the variables holding st
RECURSIVE ExprVal(_, _, _)
ExprVal(st, e, j) ==
  LET nd == e[j] IN
  CASE nd.k = "val" -> st[nd.name].x
    [] nd.k = "const" -> nd.c
    [] nd.k = "add" -> Add(ExprVal(st, e, nd.l), ExprVal(st, e, nd.r))
    [] nd.k = "sub" -> Sub(ExprVal(st, e, nd.l), ExprVal(st, e, nd.r))
    [] nd.k = "mul" -> Mul(ExprVal(st, e, nd.l), ExprVal(st, e, nd.r))
    [] nd.k = "div" -> Div(ExprVal(st, e, nd.l), ExprVal(st, e, nd.r))
    [] nd.k = "pow" -> Pow(ExprVal(st, e, nd.l), ExprVal(st, e, nd.r))

\* dx(i) of node j of e, the variables holding st
RECURSIVE ExprDx(_, _, _, _)
ExprDx(st, e, j, i) ==
  LET nd == e[j] IN
  CASE nd.k = "val" -> st[nd.name].dx[i]
    [] nd.k = "const" -> Zero
    [] nd.k = "add" -> Add(ExprDx(st, e, nd.l, i), ExprDx(st, e, nd.r, i))
    [] nd.k = "sub" -> Sub(ExprDx(st, e, nd.l, i), ExprDx(st, e, nd.r, i))
    [] nd.k = "mul" ->
         Add(Mul(ExprDx(st, e, nd.l, i), ExprVal(st, e, nd.r)),
             Mul(ExprVal(st, e, nd.l), ExprDx(st, e, nd.r, i)))
    [] nd.k = "div" ->
         Div(Sub(Mul(ExprDx(st, e, nd.l, i), ExprVal(st, e, nd.r)),
                 Mul(ExprVal(st, e, nd.l), ExprDx(st, e, nd.r, i))),
             Mul(ExprVal(st, e, nd.r), ExprVal(st, e, nd.r)))
    [] nd.k = "pow" ->
         Add(Mul(Mul(ExprDx(st, e, nd.r, i), Log(ExprVal(st, e, nd.l))),
                 Pow(ExprVal(st, e, nd.l), ExprVal(st, e, nd.r))),
             Mul(Mul(ExprVal(st, e, nd.r), ExprDx(st, e, nd.l, i)),
                 Pow(ExprVal(st, e, nd.l), Sub(ExprVal(st, e, nd.r), One))))

\* the variables an expression references
LeavesOf(e) == {e[j].name : j \in {q \in 1 .. Len(e) : e[q].k = "val"}}

\* the loop of ValExpr::assign from index i on: this->dx(i) = r.self().dx(i),
\* each read made on the variables as the writes so far left them; acc holds
\* the variables and the calls made on r.self() so far
RECURSIVE AssignLoop(_, _, _, _)
AssignLoop(acc, tgt, e, i) ==
  IF i >= degree THEN acc
  ELSE AssignLoop(
         [st |-> [acc.st EXCEPT ![tgt].dx[i] = ExprDx(acc.st, e, Len(e), i)],
          calls |-> Append(acc.calls, [m |-> "dx", i |-> i])],
         tgt, e, i + 1)

\* assign with the loop started at 1: dx(0) is never read nor stored
assign_FromOne(st, tgt, e) ==
  AssignLoop(
    [st |-> [st EXCEPT ![tgt].x = ExprVal(st, e, Len(e))],
     calls |-> << [m |-> "val", i |-> 0 - 1] >>],
    tgt, e, 1)

\* assign storing into the first variable of the expression as well
assign_IntoOperand(st, tgt, e) ==
  AssignLoop(
    [st |-> [st EXCEPT ![tgt].x = ExprVal(st, e, Len(e)),
                       ![e[1].name].x = ExprVal(st, e, Len(e))],
     calls |-> << [m |-> "val", i |-> 0 - 1] >>],
    tgt, e, 0)

\* ValExpr::assign(r), r the root of e: the value first, then the loop
assign(st, tgt, e) ==
  AssignLoop(
    [st |-> [st EXCEPT ![tgt].x = ExprVal(st, e, Len(e))],
     calls |-> << [m |-> "val", i |-> 0 - 1] >>],
    tgt, e, 0)

\* ValExpr::diff(idx) for an index inside the array
RECURSIVE ZeroLoop(_, _)
ZeroLoop(v, i) ==
  IF i >= degree THEN v ELSE ZeroLoop([v EXCEPT !.dx[i] = Zero], i + 1)

ValDiff(v, idx) == [ZeroLoop(v, 0) EXCEPT !.dx[idx] = One]

(* The same expression with the eager operators of diff.h: every node a    *)
(* materialized AD<N>.                                                     *)
RECURSIVE Eager(_, _, _)
Eager(st, e, j) ==
  LET nd == e[j] IN
  CASE nd.k = "val" -> st[nd.name]
    [] nd.k = "add" -> PlusAA(Eager(st, e, nd.l), Eager(st, e, nd.r))
    [] nd.k = "sub" -> MinusAA(Eager(st, e, nd.l), Eager(st, e, nd.r))
    [] nd.k = "mul" -> TimesAA(Eager(st, e, nd.l), Eager(st, e, nd.r))
    [] nd.k = "div" -> OverAA(Eager(st, e, nd.l), Eager(st, e, nd.r))

-----------------------------------------------------------------------------
(* The inputs.                                                             *)

Vals == MinVal .. MaxVal
Scalars == {Num(v) : v \in Vals}
Grads == [Idx -> {Zero, One}]
ADSet == {[x |-> Num(v), dx |-> g] : v \in Vals, g \in Grads}

\* the indices handed to diff and dx: those of the array and one past it
Indices == 0 .. N

\* the values main gives a, b, c: 1.0, 2.0, 3.0 among them
MainVals == MinVal .. (MaxVal + 1)

Kinds == {"add", "sub", "mul", "div"}
LeafExprs == {<< ValNode(nm) >> : nm \in Leaves}
ConstExprs == {<< ConstNode(v) >> : v \in Scalars}
FlatExprs == {Node(k, ea, eb) : k \in Kinds, ea \in LeafExprs, eb \in LeafExprs}
\* t k y, the operand nested in a larger expression
InnerExprs == {Node(k, << ValNode("t") >>, << ValNode("y") >>) : k \in Kinds}
NestedExprs ==
  {Node(k, ea, eb) : k \in Kinds, ea \in InnerExprs, eb \in LeafExprs}
    \cup {Node(k, eb, ea) : k \in Kinds, ea \in InnerExprs, eb \in LeafExprs}
\* the expressions of +, -, *, / over the variables
Exprs == LeafExprs \cup FlatExprs \cup NestedExprs
\* pow(u, v) of a variable and a variable or a constant
PowExprs == {Node("pow", ea, eb) : ea \in LeafExprs, eb \in LeafExprs \cup ConstExprs}

-----------------------------------------------------------------------------
(* The state.                                                              *)

VARIABLES
  prog,    \* the program running: "eager", "lazy" or "main"
  a,       \* eager: the AD<N> variable the operations are applied to
  st,      \* lazy: the ValExpr variables, by name
  beyond,  \* the double stored right after the derivative array
  seeds,   \* the number of diff calls made
  out,     \* the last operation: its operands, its result, its effect
  abc,     \* main: the variables a, b, c
  pc,      \* main: the line reached
  res      \* main: the variables f, g, i, j

vars == << prog, a, st, beyond, seeds, out, abc, pc, res >>

None == [op |-> "none"]

NoVars == [nm \in Vars |-> ADDefault]
NoABC == [nm \in {"a", "b", "c"} |-> ADDefault]
NoRes == [nm \in {"f", "g", "i", "j"} |-> ADDefault]

InitEager ==
  /\ prog = "eager"
  /\ a \in ADSet
  /\ beyond \in {Zero, Num(MaxVal)}
  /\ st = NoVars /\ abc = NoABC /\ pc = "none" /\ res = NoRes
  /\ seeds = 0 /\ out = None

\* Val t = v; Val y = w;
InitLazy ==
  /\ prog = "lazy"
  /\ \E v \in Scalars, w \in Scalars : st = [NoVars EXCEPT !["t"] = ADOf(v), !["y"] = ADOf(w)]
  /\ beyond = Zero
  /\ a = ADDefault /\ abc = NoABC /\ pc = "none" /\ res = NoRes
  /\ seeds = 0 /\ out = None

\* a step is enabled until the operation under study was made, and not after
\* an access outside the array: what the program does from there on is not
\* defined
Open == out.op = "none" \/ (out.op = "diff" /\ out.i \in Idx)

-----------------------------------------------------------------------------
(* Undefined behaviour.  diff(i) and dx(i) index dx_ without a check; for  *)
(* i >= N the access is outside the array.  The outcomes the build can     *)
(* produce: the access lands on the double stored after the array, or the  *)
(* process faults.  No outcome reports an error to the caller.             *)
Outside == {"lands", "fault"}

-----------------------------------------------------------------------------
(* The eager program: operations on a.                                     *)

\* a f R, the right operand an AD
ApplyAA(f) ==
  /\ prog = "eager" /\ Open
  /\ \E R \in ADSet :
       out' = [op |-> "binary", form |-> "AA", f |-> f, L |-> a, R |-> R,
               res |-> BinaryAA(f, a, R), after |-> a]
  /\ UNCHANGED << prog, a, st, beyond, seeds, abc, pc, res >>

\* L f a, the left operand a double
ApplyDA(f) ==
  /\ prog = "eager" /\ Open
  /\ \E L \in Scalars :
       out' = [op |-> "binary", form |-> "DA", f |-> f, L |-> ADOf(L), R |-> a,
               res |-> BinaryDA(f, L, a), after |-> a]
  /\ UNCHANGED << prog, a, st, beyond, seeds, abc, pc, res >>

\* a f R, the right operand a double
ApplyAD(f) ==
  /\ prog = "eager" /\ Open
  /\ \E R \in Scalars :
       out' = [op |-> "binary", form |-> "AD", f |-> f, L |-> a, R |-> ADOf(R),
               res |-> BinaryAD(f, a, R), after |-> a]
  /\ UNCHANGED << prog, a, st, beyond, seeds, abc, pc, res >>

\* a f= other, other a double
AssignD(f) ==
  /\ prog = "eager" /\ Open
  /\ \E other \in Scalars, ret \in Returned(f, "D") :
       /\ a' = CompoundD(f, a, other)
       /\ out' = [op |-> "compound", form |-> "D", f |-> f, pre |-> a,
                  other |-> ADOf(other), post |-> a', ret |-> ret]
  /\ UNCHANGED << prog, st, beyond, seeds, abc, pc, res >>

\* a f= other, other another AD variable
AssignA(f) ==
  /\ prog = "eager" /\ Open
  /\ \E other \in ADSet, ret \in Returned(f, "A") :
       /\ a' = CompoundA(f, a, other, FALSE)
       /\ out' = [op |-> "compound", form |-> "A", f |-> f, pre |-> a,
                  other |-> other, post |-> a', ret |-> ret]
  /\ UNCHANGED << prog, st, beyond, seeds, abc, pc, res >>

\* a f= a
AssignSelf(f) ==
  /\ prog = "eager" /\ Open
  /\ \E ret \in Returned(f, "A") :
       /\ a' = CompoundA(f, a, a, TRUE)
       /\ out' = [op |-> "compound", form |-> "A", f |-> f, pre |-> a,
                  other |-> a, post |-> a', ret |-> ret]
  /\ UNCHANGED << prog, st, beyond, seeds, abc, pc, res >>

\* a.diff(i)
EagerDiff(i) ==
  /\ prog = "eager" /\ Open /\ seeds < MaxSeeds
  /\ seeds' = seeds + 1
  /\ IF i \in Idx
     THEN /\ a' = diff(a, i)
          /\ beyond' = beyond
          /\ out' = [op |-> "diff", who |-> "a", i |-> i, pre |-> a, post |-> a',
                     err |-> "none"]
     ELSE \E o \in Outside :
          /\ a' = zero(a)
          /\ beyond' = IF o = "lands" THEN One ELSE beyond
          /\ out' = [op |-> "diff", who |-> "a", i |-> i, pre |-> a, post |-> a',
                     err |-> IF o = "lands" THEN "none" ELSE "fault"]
  /\ UNCHANGED << prog, st, abc, pc, res >>

\* double d = a.dx(i)
EagerDxRead(i) ==
  /\ prog = "eager" /\ Open
  /\ IF i \in Idx
     THEN out' = [op |-> "dx", who |-> "a", i |-> i, pre |-> a, post |-> a,
                  res |-> dx(a, i), err |-> "none"]
     ELSE \E o \in Outside :
          out' = [op |-> "dx", who |-> "a", i |-> i, pre |-> a, post |-> a,
                  res |-> beyond, err |-> IF o = "lands" THEN "none" ELSE "fault"]
  /\ UNCHANGED << prog, a, st, beyond, seeds, abc, pc, res >>

-----------------------------------------------------------------------------
(* The lazy program: operations on the ValExpr variables.                  *)

\* nm.diff(i)
LazyDiff(nm, i) ==
  /\ prog = "lazy" /\ Open /\ seeds < MaxSeeds
  /\ seeds' = seeds + 1
  /\ IF i \in Idx
     THEN /\ st' = [st EXCEPT ![nm] = ValDiff(st[nm], i)]
          /\ beyond' = beyond
          /\ out' = [op |-> "diff", who |-> nm, i |-> i, pre |-> st[nm],
                     post |-> st'[nm], err |-> "none"]
     ELSE \E o \in Outside :
          /\ st' = [st EXCEPT ![nm] = ZeroLoop(st[nm], 0)]
          /\ beyond' = IF o = "lands" THEN One ELSE beyond
          /\ out' = [op |-> "diff", who |-> nm, i |-> i, pre |-> st[nm],
                     post |-> st'[nm], err |-> IF o = "lands" THEN "none" ELSE "fault"]
  /\ UNCHANGED << prog, a, abc, pc, res >>

\* double d = nm.dx(i)
LazyDxRead(nm, i) ==
  /\ prog = "lazy" /\ Open
  /\ IF i \in Idx
     THEN out' = [op |-> "dx", who |-> nm, i |-> i, pre |-> st[nm], post |-> st[nm],
                  res |-> dx(st[nm], i), err |-> "none"]
     ELSE \E o \in Outside :
          out' = [op |-> "dx", who |-> nm, i |-> i, pre |-> st[nm], post |-> st[nm],
                  res |-> beyond, err |-> IF o = "lands" THEN "none" ELSE "fault"]
  /\ UNCHANGED << prog, a, st, beyond, seeds, abc, pc, res >>

\* e.val() and e.dx(i) for every i, read off the expression (the printf of
\* the examples); n counts the evaluations made of e
Evaluate(e) ==
  /\ prog = "lazy" /\ Open
  /\ out' = [op |-> "eval", e |-> e, pre |-> st, post |-> st, n |-> 1,
             val |-> ExprVal(st, e, Len(e)),
             dx |-> [i \in Idx |-> ExprDx(st, e, Len(e), i)],
             first |-> [x |-> ExprVal(st, e, Len(e)),
                        dx |-> [i \in Idx |-> ExprDx(st, e, Len(e), i)]]]
  /\ UNCHANGED << prog, a, st, beyond, seeds, abc, pc, res >>

\* the same reads made once more, no write in between
EvaluateAgain ==
  /\ prog = "lazy" /\ out.op = "eval" /\ out.n = 1
  /\ out' = [out EXCEPT !.n = 2,
                        !.val = ExprVal(st, out.e, Len(out.e)),
                        !.dx = [i \in Idx |-> ExprDx(st, out.e, Len(out.e), i)]]
  /\ UNCHANGED << prog, a, st, beyond, seeds, abc, pc, res >>

\* Val f = e;  the constructor ValExpr(CRTPExpr<R> const&) on a new variable
Construct(e) ==
  /\ prog = "lazy" /\ Open
  /\ LET got == assign(st, Fresh, e) IN
       /\ st' = got.st
       /\ out' = [op |-> "assign", how |-> "construct", tgt |-> Fresh, e |-> e,
                  pre |-> st, post |-> st', calls |-> got.calls]
  /\ UNCHANGED << prog, a, beyond, seeds, abc, pc, res >>

\* tgt = e;  ValExpr::operator=(CRTPExpr<R> const&) on an existing variable
OperatorAssign(tgt, e) ==
  /\ prog = "lazy" /\ Open
  /\ LET got == assign(st, tgt, e) IN
       /\ st' = got.st
       /\ out' = [op |-> "assign", how |-> "operator=", tgt |-> tgt, e |-> e,
                  pre |-> st, post |-> st', calls |-> got.calls]
  /\ UNCHANGED << prog, a, beyond, seeds, abc, pc, res >>

-----------------------------------------------------------------------------
(* The program main (eager): a, b, c from doubles, seeded at 0, 1, 2, then *)
(* f, g, i and j.  h and k call exp on an AD, which the repository does    *)
(* not define; they are left out.                                          *)

InitMain ==
  /\ prog = "main"
  /\ \E va \in MainVals, vb \in MainVals, vc \in MainVals :
       abc = [a |-> ADOf(Num(va)), b |-> ADOf(Num(vb)), c |-> ADOf(Num(vc))]
  /\ pc = "a.diff" /\ res = NoRes
  /\ a = ADDefault /\ st = NoVars /\ beyond = Zero /\ seeds = 0 /\ out = None

\* unary minus of an AD, used by f2
NegA(v) == [x |-> Neg(v.x), dx |-> [i \in Idx |-> Neg(v.dx[i])]]

\* f1: return a + b + c
f1(va, vb, vc) == PlusAA(PlusAA(va, vb), vc)

\* f2: return -a - b - c
f2(va, vb, vc) == MinusAA(MinusAA(NegA(va), vb), vc)

\* f4 with its operands exchanged
f4_Exchanged(va, vc) == OverAA(vc, va)

\* f4: return a/c
f4(va, vc) == OverAA(va, vc)

\* 2.0 * (a + b - c) / 4.0
jOf(va, vb, vc) == OverAD(TimesDA(Num(2), MinusAA(PlusAA(va, vb), vc)), Num(4))

MainFrame == UNCHANGED << prog, a, st, beyond, seeds, out >>

\* a.diff(0)
MainDiffA ==
  /\ prog = "main" /\ pc = "a.diff"
  /\ abc' = [abc EXCEPT !.a = diff(abc.a, 0)]
  /\ pc' = "b.diff" /\ UNCHANGED res /\ MainFrame

\* b.diff(1)
MainDiffB ==
  /\ prog = "main" /\ pc = "b.diff"
  /\ abc' = [abc EXCEPT !.b = diff(abc.b, 1)]
  /\ pc' = "c.diff" /\ UNCHANGED res /\ MainFrame

\* c.diff(2)
MainDiffC ==
  /\ prog = "main" /\ pc = "c.diff"
  /\ abc' = [abc EXCEPT !.c = diff(abc.c, 2)]
  /\ pc' = "f" /\ UNCHANGED res /\ MainFrame

\* ScalarT f = f1(a,b,c)
MainF ==
  /\ prog = "main" /\ pc = "f"
  /\ res' = [res EXCEPT !.f = f1(abc.a, abc.b, abc.c)]
  /\ pc' = "g" /\ UNCHANGED abc /\ MainFrame

\* ScalarT g = f2(a,b,c)
MainG ==
  /\ prog = "main" /\ pc = "g"
  /\ res' = [res EXCEPT !.g = f2(abc.a, abc.b, abc.c)]
  /\ pc' = "i" /\ UNCHANGED abc /\ MainFrame

\* ScalarT i = f4(a,c)
MainI ==
  /\ prog = "main" /\ pc = "i"
  /\ res' = [res EXCEPT !.i = f4(abc.a, abc.c)]
  /\ pc' = "j" /\ UNCHANGED abc /\ MainFrame

\* ScalarT j = 2.0 * (a + b - c) / 4.0
MainJ ==
  /\ prog = "main" /\ pc = "j"
  /\ res' = [res EXCEPT !.j = jOf(abc.a, abc.b, abc.c)]
  /\ pc' = "done" /\ UNCHANGED abc /\ MainFrame

-----------------------------------------------------------------------------
(* The specifications.                                                     *)

NextEager ==
  \/ \E f \in Ops : ApplyAA(f)
  \/ \E f \in Ops : ApplyDA(f)
  \/ \E f \in Ops : ApplyAD(f)
  \/ \E f \in Ops : AssignD(f)
  \/ \E f \in Ops : AssignA(f)
  \/ \E f \in Ops : AssignSelf(f)
  \/ \E i \in Indices : EagerDiff(i)
  \/ \E i \in Indices : EagerDxRead(i)

NextLazy ==
  \/ \E nm \in Leaves, i \in Indices : LazyDiff(nm, i)
  \/ \E nm \in Leaves, i \in Indices : LazyDxRead(nm, i)
  \/ \E e \in Exprs \cup PowExprs : Evaluate(e)
  \/ EvaluateAgain
  \/ \E e \in Exprs : Construct(e)
  \/ \E e \in Exprs : OperatorAssign("t", e)

NextMain ==
  \/ MainDiffA
  \/ MainDiffB
  \/ MainDiffC
  \/ MainF
  \/ MainG
  \/ MainI
  \/ MainJ

Init == InitEager \/ InitLazy \/ InitMain

Next == NextEager \/ NextLazy \/ NextMain

Spec == Init /\ [][Next]_vars

SpecEager == InitEager /\ [][NextEager]_vars

SpecLazy == InitLazy /\ [][NextLazy]_vars

SpecMain == InitMain /\ [][NextMain]_vars

-----------------------------------------------------------------------------
(* The claims.                                                             *)

\* the value and the derivative the rules of differentiation give L f R
RuleVal(f, L, R) ==
  CASE f = "+" -> Add(L.x, R.x)
    [] f = "-" -> Sub(L.x, R.x)
    [] f = "*" -> Mul(L.x, R.x)
    [] f = "/" -> Div(L.x, R.x)

RuleDx(f, L, R, i) ==
  CASE f = "+" -> Add(L.dx[i], R.dx[i])
    [] f = "-" -> Sub(L.dx[i], R.dx[i])
    [] f = "*" -> Add(Mul(L.dx[i], R.x), Mul(L.x, R.dx[i]))
    [] f = "/" -> Div(Sub(Mul(L.dx[i], R.x), Mul(L.x, R.dx[i])), Mul(R.x, R.x))

Finite(v) == v.x.k = "fin" /\ \A i \in Idx : v.dx[i].k = "fin"

\* C1, as stated: every binary operator, on two AD operands and on an AD and
\* a double in either order (the double counting as an AD with a zero
\* gradient), returns the value a f b and at every index the derivative the
\* sum, difference, product and quotient rules give, and leaves its operand
\* as it was.
C1_AsStated ==
  out.op = "binary" =>
    /\ out.res.x = RuleVal(out.f, out.L, out.R)
    /\ \A i \in Idx : out.res.dx[i] = RuleDx(out.f, out.L, out.R, i)
    /\ a = out.after

\* C1, amended: as stated for finite operands, except that an AD divided by
\* the double 0 has the derivative da(i)/0 at every index (an infinity, or
\* NaN where da(i) = 0), not the NaN the quotient rule gives.
C1_BinaryRules ==
  (out.op = "binary" /\ Finite(out.L) /\ Finite(out.R)) =>
    /\ out.res.x = RuleVal(out.f, out.L, out.R)
    /\ \A i \in Idx :
         out.res.dx[i] =
           IF out.form = "AD" /\ out.f = "/" /\ IsZero(out.R.x)
           THEN Div(out.L.dx[i], Zero)
           ELSE RuleDx(out.f, out.L, out.R, i)
    /\ a = out.after

\* a quotient of two ADs was taken whose derivative at index 0 has both terms
\* of the quotient rule
C1_Witness ==
  /\ out.op = "binary" /\ out.form = "AA" /\ out.f = "/"
  /\ out.L.dx[0] = One /\ out.R.dx[0] = One
  /\ out.L.x = Num(1) /\ out.R.x = Num(2)
  /\ out.res.dx[0] = Rat(1, 4)


Root(e) == e[Len(e)]

\* C2: an expression of the lazy nodes Add, Sub, Mul, Div evaluates to the
\* value and, at every index, the derivative that the eager operators of
\* diff.h give for the same expression on the same variables.
C2_LazyEqualsEager ==
  (out.op = "eval" /\ Root(out.e).k # "pow") =>
    /\ out.val = Eager(st, out.e, Len(out.e)).x
    /\ \A i \in Idx : out.dx[i] = Eager(st, out.e, Len(out.e)).dx[i]

\* y / (t * y) was evaluated with t and y both seeded at index 0, the
\* derivative there finite and not zero
C2_Witness ==
  /\ out.op = "eval" /\ Len(out.e) = 5
  /\ Root(out.e).k = "div" /\ out.e[4].k = "mul"
  /\ st["t"].dx[0] = One /\ st["y"].dx[0] = One
  /\ out.dx[0].k = "fin" /\ out.dx[0].n # 0

\* C3: after diff(i) with i in [0,N), on an AD and on a ValExpr alike and
\* whatever the gradient held, the derivative at i is 1, every other
\* derivative is 0 and the value is the one before; a second diff with
\* another index leaves only that index set.
C3_SeedingResets ==
  (out.op = "diff" /\ out.i \in Idx) =>
    /\ out.post.dx[out.i] = One
    /\ \A j \in Idx \ {out.i} : out.post.dx[j] = Zero
    /\ out.post.x = out.pre.x
    /\ IF out.who = "a" THEN a = out.post ELSE st[out.who] = out.post

\* a variable seeded at one index was seeded again at another
C3_Witness ==
  /\ out.op = "diff" /\ seeds = 2 /\ out.i \in Idx
  /\ \E j \in Idx \ {out.i} : out.pre.dx[j] = One
  /\ out.post.dx[out.i] = One

\* C4: diff(index) and dx(index) with index outside [0,N) end in the error
\* IndexOutOfRange and leave the value and the gradient as they were.
C4_IndexChecked ==
  (out.op \in {"diff", "dx"} /\ out.i \notin Idx) =>
    /\ out.err = "IndexOutOfRange"
    /\ out.post = out.pre

Count(s, c) == Cardinality({q \in 1 .. Len(s) : s[q] = c})

\* C5: constructing a new variable from an expression e calls e.val() once
\* and e.dx(i) once for each i in [0,N); afterwards the variable's value is
\* e.val() and its derivative at every i is e.dx(i).
C5_Materialization ==
  (out.op = "assign" /\ out.how = "construct") =>
    /\ Count(out.calls, [m |-> "val", i |-> 0 - 1]) = 1
    /\ \A i \in Idx : Count(out.calls, [m |-> "dx", i |-> i]) = 1
    /\ Len(out.calls) = N + 1
    /\ st[Fresh].x = ExprVal(st, out.e, Len(out.e))
    /\ \A i \in Idx : st[Fresh].dx[i] = ExprDx(st, out.e, Len(out.e), i)

\* Val f = t * y was constructed with t seeded at index 0, and f holds the
\* derivative y there, not zero
C5_Witness ==
  /\ out.op = "assign" /\ out.how = "construct"
  /\ Len(out.e) = 3 /\ Root(out.e).k = "mul"
  /\ out.e[1].name = "t" /\ out.e[2].name = "y"
  /\ st["t"].dx[0] = One /\ st["y"].x = Num(2)
  /\ st[Fresh].dx[0] = Num(2) /\ st[Fresh].x # Zero


\* the AD with value v and the gradient [g0, g1, g2]
Dual(v, g0, g1, g2) == [x |-> v, dx |-> [i \in Idx |-> IF i = 0 THEN g0 ELSE IF i = 1 THEN g1 ELSE g2]]

\* the values a, b, c were constructed from
valA == abc.a.x
valB == abc.b.x
valC == abc.c.x

Half == Rat(1, 2)

\* f, g and j of the scenario: f = a+b+c with gradient [1,1,1], g = -a-b-c
\* with gradient [-1,-1,-1], j = 2(a+b-c)/4 = (a+b-c)/2 with gradient
\* [1/2,1/2,-1/2]
ScenarioFGJ ==
  /\ res.f = Dual(Add(Add(valA, valB), valC), One, One, One)
  /\ res.g = Dual(Neg(Add(Add(valA, valB), valC)), Neg(One), Neg(One), Neg(One))
  /\ res.j = Dual(Div(Sub(Add(valA, valB), valC), Num(2)), Half, Half, Neg(Half))

\* the scenario at the values 1, 2, 3 of main
ScenarioAt123 ==
  (valA = Num(1) /\ valB = Num(2) /\ valC = Num(3)) =>
    /\ res.f.x = Num(6) /\ res.g.x = Num(0 - 6) /\ res.j.x = Zero
    /\ res.i = Dual(Rat(1, 3), Rat(1, 3), Zero, Rat(0 - 1, 9))

\* C6, as stated: with a, b, c seeded at 0, 1, 2 the scenario gives f, g and
\* j as above and h = a/c with value a/c and gradient [1/c, 0, -a/c^2]; at
\* the values 1, 2, 3: f = 6, g = -6, j = 0, h = 1/3 with [1/3, 0, -1/9].
C6_AsStated ==
  pc = "done" =>
    /\ ScenarioFGJ
    /\ res.i = Dual(Div(valA, valC), Div(One, valC), Zero, Div(Neg(valA), Mul(valC, valC)))
    /\ ScenarioAt123

\* C6, amended: as stated, the gradient of h = a/c being [1/c, 0, -a/c^2]
\* when c is not 0; at c = 0 its derivatives at indices 0 and 1 are NaN.
C6_Scenario ==
  pc = "done" =>
    /\ ScenarioFGJ
    /\ res.i.x = Div(valA, valC)
    /\ res.i.dx[2] = Div(Neg(valA), Mul(valC, valC))
    /\ IF IsZero(valC)
       THEN res.i.dx[0] = NaN /\ res.i.dx[1] = NaN
       ELSE res.i.dx[0] = Div(One, valC) /\ res.i.dx[1] = Zero
    /\ ScenarioAt123

\* main ran to its end from the values 1, 2, 3
C6_Witness ==
  /\ pc = "done" /\ valA = Num(1) /\ valB = Num(2) /\ valC = Num(3)
  /\ abc.a.dx[0] = One /\ abc.b.dx[1] = One /\ abc.c.dx[2] = One
  /\ res.i.dx[2] = Rat(0 - 1, 9)

\* the result of the binary operator on the receiver as it was and the operand
BinaryOf(o) ==
  IF o.form = "D" THEN BinaryAD(o.f, o.pre, o.other.x) ELSE BinaryAA(o.f, o.pre, o.other)

\* C7: every compound assignment, with an AD or a double on the right,
\* returns the receiver, and the receiver then holds the value and the
\* derivatives of the binary operator applied to the receiver as it was
\* before the call and the operand.
C7_CompoundAsBinary ==
  out.op = "compound" =>
    /\ out.ret = "self"
    /\ out.post = BinaryOf(out)
    /\ a = out.post

\* C8: for pow(u, v) with a constant exponent v the derivative at every index
\* is v * du(i) * u^(v-1), computed without the logarithm of the base: no
\* domain failure of the logarithm shows in it, also for u <= 0.
C8_PowConstantExponent ==
  (/\ out.op = "eval" /\ Root(out.e).k = "pow"
   /\ \A i \in Idx : ExprDx(st, out.e, Root(out.e).r, i) = Zero) =>
    \A i \in Idx :
      out.dx[i] =
        Mul(Mul(ExprVal(st, out.e, Root(out.e).r), ExprDx(st, out.e, Root(out.e).l, i)),
            Pow(ExprVal(st, out.e, Root(out.e).l),
                Sub(ExprVal(st, out.e, Root(out.e).r), One)))

C10_SelfAssignment ==
  (out.op = "assign" /\ out.how = "operator=" /\ out.tgt \in LeavesOf(out.e)) =>
    /\ st[out.tgt].x = ExprVal(out.pre, out.e, Len(out.e))
    /\ \A i \in Idx : st[out.tgt].dx[i] = ExprDx(out.pre, out.e, Len(out.e), i)

=============================================================================
